---------------------------- MODULE Spec2Model ----------------------------
(***************************************************************************)
(* Model of the hybrid retrieval engine of scripts/rag.py:                 *)
(* SimpleEmbedder (TF-IDF), FAISSVectorStore (brute-force branch, the one  *)
(* taken when the optional faiss package is not importable, rag.py         *)
(* 112-116) and HybridSearchEngine (inverted index, score fusion).         *)
(*                                                                         *)
(* Numbers.  Python floats are modelled in fixed point: a score s is the   *)
(* integer s * SCALE, i.e. the four decimals the code rounds to with       *)
(* round(x, 4).  Weights are integers in tenths (WSCALE).  math.log is a   *)
(* table of its values at the arguments the bounded corpora can produce.   *)
(*                                                                         *)
(* Positions.  Python list positions are 0-based, sequences here are       *)
(* 1-based: position p of the model is position p-1 of the code.           *)
(*                                                                         *)
(* Documents.  A document is a Python dict; its identity (the object) is   *)
(* the field ref, its optional "id" key is the field id (NoId: absent).    *)
(***************************************************************************)
EXTENDS Integers, Sequences, FiniteSets, TLC

(***************************************************************************)
(* Bounds of the model.                                                    *)
(***************************************************************************)
MaxDocs == 3
MaxLen == 1
MaxQueryLen == 2
MaxTopK == 2
MaxAdds == 2
MaxDim == 2
MaxSimpleLen == 2
MaxIndexLen == 2
MaxIndexDocs == 2
MaxDupDocs == 5
MaxSimpleDocs == 2
MaxSimpleVectors == 3

(***************************************************************************)
(* Fixed-point units.                                                      *)
(***************************************************************************)
SCALE == 10000
WSCALE == 10

DocWords == {"a", "B"}
QueryWords == {"a", "b", "c"}

\* The semantic_weight arguments the constructor is called with, in tenths:
\* the default 0.7, the two edges and a value outside [0,1] (the constructor
\* takes any float).
SemanticWeights == {0, 7, 10, 15}

NoId == 0

SeqsUpTo(S, n) == UNION {[1..k -> S] : k \in 0..n}

Min(a, b) == IF a < b THEN a ELSE b

\* A corpus as passed to add_documents: the i-th dict has content c[i].content
\* and, when c[i].hasId, an "id" of its own (ids of one corpus are unique).
InputDocs == [content : SeqsUpTo(DocWords, MaxLen), hasId : BOOLEAN]
Corpora == SeqsUpTo(InputDocs, MaxDocs)
MakeDocs(c) ==
    [i \in 1..Len(c) |->
        [id |-> IF c[i].hasId THEN i ELSE NoId, content |-> c[i].content, ref |-> i]]

Queries == SeqsUpTo(QueryWords, MaxQueryLen)
TopKs == 0..MaxTopK

(***************************************************************************)
(* Tokenizer: re.findall(r"\w+", text.lower()).  A text is its sequence of *)
(* words; lower() folds the case of each.                                  *)
(***************************************************************************)
Lower(w) == IF w = "A" THEN "a" ELSE IF w = "B" THEN "b" ELSE IF w = "C" THEN "c" ELSE w

Tokenize(text) == [i \in 1..Len(text) |-> Lower(text[i])]

\* set(tokens), enumerated in order of first occurrence.
RECURSIVE Distinct(_)
Distinct(s) ==
    IF s = <<>> THEN <<>>
    ELSE LET front == Distinct(SubSeq(s, 1, Len(s) - 1))
             x == s[Len(s)]
         IN IF \E i \in 1..Len(front) : front[i] = x THEN front ELSE Append(front, x)

Count(s, x) == Cardinality({i \in 1..Len(s) : s[i] = x})

RECURSIVE SumSeq(_)
SumSeq(s) == IF s = <<>> THEN 0 ELSE s[1] + SumSeq(Tail(s))

(***************************************************************************)
(* math.log and math.sqrt in fixed point.                                  *)
(***************************************************************************)
\* ln(k) * SCALE for k = 1..8
LnTable == <<0, 6931, 10986, 13863, 16094, 17918, 19459, 20794>>

\* math.log((n + 1) / (df + 1)) + 1
SmoothedIdf(n, df) == LnTable[n + 1] - LnTable[df + 1] + SCALE

RECURSIVE SqrtSearch(_, _, _)
SqrtSearch(x, lo, hi) ==
    IF lo >= hi THEN lo
    ELSE LET mid == (lo + hi + 1) \div 2
         IN IF mid * mid <= x THEN SqrtSearch(x, mid, hi) ELSE SqrtSearch(x, lo, mid - 1)

ISqrt(x) == SqrtSearch(x, 0, 4 * SCALE)

\* round(num / den) to the nearest unit
RoundDiv(num, den) == (2 * num + den) \div (2 * den)

(***************************************************************************)
(* SimpleEmbedder.  vocab is the dict token -> index as the sequence of    *)
(* its tokens; idf is the dict token -> weight as a sequence of pairs.     *)
(***************************************************************************)
NewEmbedder == [vocab |-> <<>>, idf |-> <<>>, fitted |-> FALSE]

\* doc_freq of fit: tokens in order of first insertion into the Counter
FitTokens(texts) ==
    LET RECURSIVE Cat(_)
        Cat(i) == IF i > Len(texts) THEN <<>> ELSE Tokenize(texts[i]) \o Cat(i + 1)
    IN Distinct(Cat(1))

\* (mutant) every occurrence of the token is counted, not every document
DocFreqOccurrences(texts, w) ==
    SumSeq([i \in 1..Len(texts) |-> Count(Tokenize(texts[i]), w)])

DocFreq(texts, w) ==
    Cardinality({i \in 1..Len(texts) : \E j \in 1..Len(texts[i]) : Tokenize(texts[i])[j] = w})

FitIdf(texts) ==
    LET toks == FitTokens(texts)
    IN [i \in 1..Len(toks) |->
           [tok |-> toks[i], val |-> SmoothedIdf(Len(texts), DocFreq(texts, toks[i]))]]

FitVocab(idf) == [i \in 1..Len(idf) |-> idf[i].tok]

\* self.idf = {...} (lines 31-40)
FitSetIdf(emb, texts) == [emb EXCEPT !.idf = FitIdf(texts)]

\* self.vocab = {...}; self.fitted = True (lines 41-42)
FitSetVocab(emb) == [emb EXCEPT !.vocab = FitVocab(emb.idf), !.fitted = TRUE]

Fit(emb, texts) == FitSetVocab(FitSetIdf(emb, texts))

\* self.idf.get(token, 1.0)
IdfGet(idf, w) ==
    IF \E i \in 1..Len(idf) : idf[i].tok = w
    THEN idf[CHOOSE i \in 1..Len(idf) : idf[i].tok = w].val
    ELSE SCALE

\* (mutant) the vector has one component per distinct token of the text
EncodeTextOwnTokens(emb, text) ==
    [i \in 1..Len(Distinct(Tokenize(text))) |-> SCALE]

\* one text of encode, with the embedder as it is (lines 49-60)
EncodeText(emb, text) ==
    LET tokens == Tokenize(text)
        raw == [i \in 1..Len(emb.vocab) |->
                   IF Count(tokens, emb.vocab[i]) > 0
                   THEN (Count(tokens, emb.vocab[i]) * IdfGet(emb.idf, emb.vocab[i])) \div Len(tokens)
                   ELSE 0]
        sq == ISqrt(SumSeq([i \in 1..Len(raw) |-> raw[i] * raw[i]]))
        norm == IF sq = 0 THEN SCALE ELSE sq
    IN [i \in 1..Len(raw) |-> (raw[i] * SCALE) \div norm]

\* (mutant) encode fits on its texts every time
EncodeRefit(emb, texts) == Fit(emb, texts)

\* the embedder after encode(texts): lazily fitted when it was not (46-47)
EncodeFit(emb, texts) == IF emb.fitted THEN emb ELSE Fit(emb, texts)

Encode(emb, texts) ==
    LET e == EncodeFit(emb, texts)
    IN [i \in 1..Len(texts) |-> EncodeText(e, texts[i])]


(***************************************************************************)
(* FAISSVectorStore, brute-force branch.                                   *)
(***************************************************************************)
NewStore == [documents |-> <<>>, vectors |-> <<>>, has_vectors |-> FALSE]

Contents(docs) == [i \in 1..Len(docs) |-> docs[i].content]

\* self.documents = documents (line 120)
StoreSetDocuments(store, docs) == [store EXCEPT !.documents = docs]

\* vectors = self.embedder.encode(texts); self._vectors = vectors (125, 137)
StoreSetVectors(store, emb, docs) ==
    [store EXCEPT !.vectors = Encode(emb, Contents(docs)), !.has_vectors = TRUE]

\* sum(a * b for a, b in zip(query_vec, doc_vec)): zip stops at the shorter
Dot(a, b) ==
    SumSeq([i \in 1..Min(Len(a), Len(b)) |-> a[i] * b[i]])

\* round(score, 4) of an inner product of two vectors in units of 1/SCALE
Round4(dot) == RoundDiv(dot, SCALE)

\* The permutation that sorts keys in descending order, equal keys in their
\* original order: list.sort(key=..., reverse=True) is stable.
\* (mutant) an unstable sort: an element goes before the ones equal to it
InsertBeforeEqual(keys, sorted, n) ==
    LET before == Cardinality({j \in 1..Len(sorted) : keys[sorted[j]] > keys[n]})
    IN SubSeq(sorted, 1, before) \o <<n>> \o SubSeq(sorted, before + 1, Len(sorted))

InsertDesc(keys, sorted, n) ==
    LET before == Cardinality({j \in 1..Len(sorted) : keys[sorted[j]] >= keys[n]})
    IN SubSeq(sorted, 1, before) \o <<n>> \o SubSeq(sorted, before + 1, Len(sorted))

RECURSIVE SortPrefix(_, _)
SortPrefix(keys, n) ==
    IF n = 0 THEN <<>> ELSE InsertDesc(keys, SortPrefix(keys, n - 1), n)

SortDesc(keys) == SortPrefix(keys, Len(keys))

\* seq[:k] for k >= 0
Take(seq, k) == SubSeq(seq, 1, Min(k, Len(seq)))

\* (mutant) the pairs are sliced without being sorted
BruteForceUnsorted(vectors, query_vec, top_k) ==
    Take([i \in 1..Len(vectors) |-> [score |-> Dot(query_vec, vectors[i]), idx |-> i]], top_k)

\* lines 162-167 and the slice of line 170: the (score, idx) pairs kept
BruteForceScores(vectors, query_vec, top_k) ==
    LET dots == [i \in 1..Len(vectors) |-> Dot(query_vec, vectors[i])]
        order == SortDesc(dots)
    IN Take([r \in 1..Len(order) |-> [score |-> dots[order[r]], idx |-> order[r]]], top_k)

\* lines 169-175: self.documents[idx] raises IndexError out of range
BruteForceError(scores, documents) ==
    IF \E r \in 1..Len(scores) : scores[r].idx > Len(documents)
    THEN "IndexError" ELSE "none"

BruteForceResults(scores, documents) ==
    [r \in 1..Len(scores) |->
        [document |-> documents[scores[r].idx],
         relevance_score |-> Round4(scores[r].score)]]

(***************************************************************************)
(* HybridSearchEngine.                                                     *)
(***************************************************************************)
NewHybrid == [documents |-> <<>>, inverted_index |-> <<>>, has_index |-> FALSE]

\* (mutant) the keyword weight does not follow the semantic weight
KeywordWeightFixed(sw) == 3

\* self.keyword_weight = 1.0 - semantic_weight (line 188)
KeywordWeight(sw) == WSCALE - sw

\* self.documents = documents (line 194)
HybridSetDocuments(hyb, docs) == [hyb EXCEPT !.documents = docs]

\* (mutant) the index is not emptied before it is rebuilt
KeepIndex(hyb) == [hyb EXCEPT !.has_index = TRUE]

\* self._inverted_index = {} (line 198)
ResetIndex(hyb) == [hyb EXCEPT !.inverted_index = <<>>, !.has_index = TRUE]

\* self._inverted_index.setdefault(token, []).append(i)
IndexAppend(index, tok, i) ==
    IF \E k \in 1..Len(index) : index[k].tok = tok
    THEN [k \in 1..Len(index) |->
             IF index[k].tok = tok
             THEN [tok |-> tok, postings |-> Append(index[k].postings, i)]
             ELSE index[k]]
    ELSE Append(index, [tok |-> tok, postings |-> <<i>>])

\* (mutant) the loop runs over the token list, repeats included
DocTokensAll(doc) == Tokenize(doc.content)

\* for token in set(tokens): one document of the loop of lines 199-202
DocTokens(doc) == Distinct(Tokenize(doc.content))

RECURSIVE IndexTokens(_, _, _)
IndexTokens(index, toks, i) ==
    IF toks = <<>> THEN index
    ELSE IndexTokens(IndexAppend(index, toks[1], i), Tail(toks), i)

IndexDocument(hyb, docs, i) ==
    [hyb EXCEPT !.inverted_index = IndexTokens(hyb.inverted_index, DocTokens(docs[i]), i)]

Postings(index, tok) ==
    IF \E k \in 1..Len(index) : index[k].tok = tok
    THEN index[CHOOSE k \in 1..Len(index) : index[k].tok = tok].postings
    ELSE <<>>

InIndex(index, tok) == \E k \in 1..Len(index) : index[k].tok = tok

\* (mutant) every query token is looked up, in the index or not
KeywordLookupsAll(index, tokens) == tokens

\* The query tokens for which self._inverted_index[token] (line 258) is
\* evaluated: those that pass the guard of line 257.
KeywordLookups(index, tokens) == SelectSeq(tokens, LAMBDA t : InIndex(index, t))

\* A dict lookup of a key that is not in the dict raises KeyError.
KeywordError(index, tokens) ==
    IF \E i \in 1..Len(KeywordLookups(index, tokens)) :
           ~InIndex(index, KeywordLookups(index, tokens)[i])
    THEN "KeyError" ELSE "none"

(***************************************************************************)
(* _keyword_search.  The Counter scores is the sequence of its             *)
(* (doc_idx, value) items in insertion order.                              *)
(***************************************************************************)
\* (mutant) the weight replaces the score instead of being added to it
CounterSet(scores, idx, v) ==
    IF \E k \in 1..Len(scores) : scores[k].idx = idx
    THEN [k \in 1..Len(scores) |->
             IF scores[k].idx = idx THEN [idx |-> idx, val |-> v] ELSE scores[k]]
    ELSE Append(scores, [idx |-> idx, val |-> v])

\* scores[doc_idx] += idf
CounterAdd(scores, idx, v) ==
    IF \E k \in 1..Len(scores) : scores[k].idx = idx
    THEN [k \in 1..Len(scores) |->
             IF scores[k].idx = idx THEN [idx |-> idx, val |-> scores[k].val + v]
             ELSE scores[k]]
    ELSE Append(scores, [idx |-> idx, val |-> v])

RECURSIVE AddPostings(_, _, _)
AddPostings(scores, postings, v) ==
    IF postings = <<>> THEN scores
    ELSE AddPostings(CounterAdd(scores, postings[1], v), Tail(postings), v)

\* lines 256-263
RECURSIVE Accumulate(_, _, _, _)
Accumulate(scores, tokens, index, n) ==
    IF tokens = <<>> THEN scores
    ELSE LET matching == Postings(index, tokens[1])
             next == IF InIndex(index, tokens[1])
                     THEN AddPostings(scores, matching, SmoothedIdf(n, Len(matching)))
                     ELSE scores
         IN Accumulate(next, Tail(tokens), index, n)

MaxVal(scores) ==
    CHOOSE m \in {scores[k].val : k \in 1..Len(scores)} :
        \A k \in 1..Len(scores) : scores[k].val <= m

\* (mutant) the accumulated scores are returned as they are
NormalizeRaw(scores) == scores

\* lines 266-269
Normalize(scores) ==
    IF scores = <<>> THEN <<>>
    ELSE [k \in 1..Len(scores) |->
             [idx |-> scores[k].idx, val |-> RoundDiv(scores[k].val * SCALE, MaxVal(scores))]]

KeywordSearch(hyb, query) ==
    Normalize(Accumulate(<<>>, Tokenize(query), hyb.inverted_index, Len(hyb.documents)))

(***************************************************************************)
(* search: the merge of lines 213-232.  merged is the dict as the sequence *)
(* of its items in insertion order; a key is the document's "id" or, for a *)
(* document without one, the integer the code falls back to.               *)
(***************************************************************************)
IdKey(doc, fallback) ==
    IF doc.id # NoId THEN [kind |-> "id", val |-> doc.id]
    ELSE [kind |-> "int", val |-> fallback]

\* doc_id = result["document"].get("id", i), i the rank in semantic_results
SemanticKey(result, i) == IdKey(result.document, i)

\* doc_id = self.documents[doc_idx].get("id", doc_idx)
KeywordKey(documents, doc_idx) == IdKey(documents[doc_idx], doc_idx)

HasKey(merged, key) == \E k \in 1..Len(merged) : merged[k].key = key

\* merged[doc_id] = {...}: a new key is appended, an old key keeps its place
DictSet(merged, entry) ==
    IF HasKey(merged, entry.key)
    THEN [k \in 1..Len(merged) |-> IF merged[k].key = entry.key THEN entry ELSE merged[k]]
    ELSE Append(merged, entry)

RECURSIVE MergeSemantic(_, _, _)
MergeSemantic(merged, semantic_results, i) ==
    IF i > Len(semantic_results) THEN merged
    ELSE MergeSemantic(
            DictSet(merged, [key |-> SemanticKey(semantic_results[i], i),
                             document |-> semantic_results[i].document,
                             semantic_score |-> semantic_results[i].relevance_score,
                             keyword_score |-> 0]),
            semantic_results, i + 1)

\* lines 223-232, one item of keyword_scores
MergeKeywordItem(merged, documents, item) ==
    LET key == KeywordKey(documents, item.idx)
    IN IF HasKey(merged, key)
       THEN [k \in 1..Len(merged) |->
                IF merged[k].key = key
                THEN [merged[k] EXCEPT !.keyword_score = item.val]
                ELSE merged[k]]
       ELSE Append(merged, [key |-> key,
                            document |-> documents[item.idx],
                            semantic_score |-> 0,
                            keyword_score |-> item.val])

RECURSIVE MergeKeyword(_, _, _)
MergeKeyword(merged, documents, keyword_scores) ==
    IF keyword_scores = <<>> THEN merged
    ELSE MergeKeyword(MergeKeywordItem(merged, documents, keyword_scores[1]),
                      documents, Tail(keyword_scores))

\* lines 213-232
Merge(semantic_results, documents, keyword_scores) ==
    MergeKeyword(MergeSemantic(<<>>, semantic_results, 1), documents, keyword_scores)

MergeError(documents, keyword_scores) ==
    IF \E k \in 1..Len(keyword_scores) : keyword_scores[k].idx > Len(documents)
    THEN "IndexError" ELSE "none"

\* lines 237-243: round(combined, 4)
Combined(sw, kw, data) ==
    RoundDiv(sw * data.semantic_score + kw * data.keyword_score, WSCALE)

\* lines 235-246
Fuse(sw, kw, merged) ==
    [k \in 1..Len(merged) |->
        [document |-> merged[k].document,
         relevance_score |-> Combined(sw, kw, merged[k]),
         semantic_score |-> merged[k].semantic_score,
         keyword_score |-> merged[k].keyword_score]]

\* line 248: results.sort(key=relevance_score, reverse=True)
SortResults(results) ==
    LET order == SortDesc([k \in 1..Len(results) |-> results[k].relevance_score])
    IN [r \in 1..Len(order) |-> results[order[r]]]

\* (mutant) the ranked list is returned whole
RankAll(sw, kw, merged, top_k) == SortResults(Fuse(sw, kw, merged))

\* lines 234-249
Rank(sw, kw, merged, top_k) == Take(SortResults(Fuse(sw, kw, merged)), top_k)


(***************************************************************************)
(* State.  embedder, store and hybrid are the three objects of one engine; *)
(* writer is the add_documents call in progress, reader the search call in *)
(* progress, last the call that returned last.  backend is the class of    *)
(* the vector store's embedder.  simple is a SimpleVectorStore, the store  *)
(* of use-cases/04-customer-support-aws/main.py.                           *)
(***************************************************************************)
VARIABLES semantic_weight, keyword_weight, embedder, store, hybrid, writer, reader, last, backend, simple

vars == <<semantic_weight, keyword_weight, embedder, store, hybrid, writer, reader, last,
          backend, simple>>

engine == [emb |-> embedder, store |-> store, hyb |-> hybrid]

NoDocs == <<>>

\* calls counts the add_documents calls begun by the overlapping writer
IdleWriter == [pc |-> "idle", docs |-> NoDocs, i |-> 0, calls |-> 0]

\* What a search call has read of the engine so far.
NoReads == [vocab |-> <<>>, idf |-> <<>>, vectors |-> <<>>, store_documents |-> <<>>,
            inverted_index |-> <<>>, documents |-> <<>>]

Frame(op, pc, query, top_k, indexed) ==
    [op |-> op, pc |-> pc, query |-> query, top_k |-> top_k, indexed |-> indexed,
     q_vec |-> <<>>, scores |-> <<>>, semantic_results |-> <<>>,
     keyword_scores |-> <<>>, merged |-> <<>>, results |-> <<>>, error |-> "none",
     reads |-> NoReads]

IdleFrame == Frame("none", "idle", <<>>, 0, FALSE)

\* The engine has been indexed: both add_documents have set their structures.
Indexed(E) == E.store.has_vectors /\ E.hyb.has_index

(***************************************************************************)
(* add_documents, assignment by assignment (lines 192-202, 118-137).       *)
(***************************************************************************)
AddStep(E, w) ==
    CASE w.pc = "documents" ->
            [E EXCEPT !.hyb = HybridSetDocuments(@, w.docs)]
      [] w.pc = "store_documents" ->
            [E EXCEPT !.store = StoreSetDocuments(@, w.docs)]
      [] w.pc = "fit_idf" ->
            [E EXCEPT !.emb = FitSetIdf(@, Contents(w.docs))]
      [] w.pc = "fit_vocab" ->
            [E EXCEPT !.emb = FitSetVocab(@)]
      [] w.pc = "vectors" ->
            [E EXCEPT !.store = StoreSetVectors(@, E.emb, w.docs)]
      [] w.pc = "reset_index" ->
            [E EXCEPT !.hyb = ResetIndex(@)]
      [] w.pc = "index_document" ->
            [E EXCEPT !.hyb = IndexDocument(@, w.docs, w.i)]
      [] OTHER -> E

AddNext(w) ==
    CASE w.pc = "documents" -> [w EXCEPT !.pc = "store_documents"]
      [] w.pc = "store_documents" -> [w EXCEPT !.pc = "fit_idf"]
      [] w.pc = "fit_idf" -> [w EXCEPT !.pc = "fit_vocab"]
      [] w.pc = "fit_vocab" -> [w EXCEPT !.pc = "vectors"]
      [] w.pc = "vectors" -> [w EXCEPT !.pc = "reset_index"]
      [] w.pc = "reset_index" ->
            IF Len(w.docs) = 0 THEN [w EXCEPT !.pc = "done"]
            ELSE [w EXCEPT !.pc = "index_document", !.i = 1]
      [] w.pc = "index_document" ->
            IF w.i >= Len(w.docs) THEN [w EXCEPT !.pc = "done"]
            ELSE [w EXCEPT !.i = w.i + 1]
      [] OTHER -> w

\* the whole call: every step from w on
RECURSIVE AddRun(_, _)
AddRun(E, w) ==
    IF w.pc = "done" THEN E ELSE AddRun(AddStep(E, w), AddNext(w))

StartAdd(docs) == [pc |-> "documents", docs |-> docs, i |-> 0, calls |-> 0]

\* HybridSearchEngine.add_documents(documents)
AddDocumentsCall(E, docs) == AddRun(E, StartAdd(docs))

(***************************************************************************)
(* search, read by read (lines 204-249, 139-175).  A step returns the      *)
(* call's frame after it; SearchEmbedder is the embedder after the first   *)
(* step, which encodes the query.                                          *)
(***************************************************************************)
\* (mutant) a search flips the embedder's fitted flag
SearchEmbedderFlip(E, f) == [E.emb EXCEPT !.fitted = ~@]

SearchEmbedder(E, f) ==
    IF f.pc = "encode" THEN EncodeFit(E.emb, <<f.query>>) ELSE E.emb

Raise(f, err) == [f EXCEPT !.pc = "done", !.error = err]

SearchStep(E, f, sw, kw) ==
    CASE f.pc = "encode" ->
            LET e == EncodeFit(E.emb, <<f.query>>)
            IN [f EXCEPT !.pc = "scores",
                         !.q_vec = EncodeText(e, f.query),
                         !.reads.vocab = e.vocab,
                         !.reads.idf = e.idf]
      [] f.pc = "scores" ->
            IF ~E.store.has_vectors THEN Raise(f, "AttributeError")
            ELSE [f EXCEPT !.pc = "semantic",
                           !.scores = BruteForceScores(E.store.vectors, f.q_vec, 2 * f.top_k),
                           !.reads.vectors = E.store.vectors]
      [] f.pc = "semantic" ->
            IF BruteForceError(f.scores, E.store.documents) # "none"
            THEN Raise(f, BruteForceError(f.scores, E.store.documents))
            ELSE [f EXCEPT !.pc = "keyword",
                           !.semantic_results = BruteForceResults(f.scores, E.store.documents),
                           !.reads.store_documents = E.store.documents]
      [] f.pc = "keyword" ->
            IF ~E.hyb.has_index THEN Raise(f, "AttributeError")
            ELSE IF KeywordError(E.hyb.inverted_index, Tokenize(f.query)) # "none"
            THEN Raise(f, KeywordError(E.hyb.inverted_index, Tokenize(f.query)))
            ELSE [f EXCEPT !.pc = "merge",
                           !.keyword_scores = KeywordSearch(E.hyb, f.query),
                           !.reads.inverted_index = E.hyb.inverted_index]
      [] f.pc = "merge" ->
            IF MergeError(E.hyb.documents, f.keyword_scores) # "none"
            THEN Raise(f, MergeError(E.hyb.documents, f.keyword_scores))
            ELSE [f EXCEPT !.pc = "done",
                           !.merged = Merge(f.semantic_results, E.hyb.documents, f.keyword_scores),
                           !.results = Rank(sw, kw,
                                Merge(f.semantic_results, E.hyb.documents, f.keyword_scores),
                                f.top_k),
                           !.reads.documents = E.hyb.documents]
      [] OTHER -> f

RECURSIVE SearchRun(_, _, _, _)
SearchRun(E, f, sw, kw) ==
    IF f.pc = "done" THEN f ELSE SearchRun(E, SearchStep(E, f, sw, kw), sw, kw)

StartSearch(E, query, top_k) == Frame("search", "encode", query, top_k, Indexed(E))

\* get_embedder (lines 87-94): the dense embedder when it is asked for and
\* sentence_transformers can be imported, the TF-IDF embedder otherwise.
GetEmbedder(use_sentence_transformers, importable) ==
    IF use_sentence_transformers /\ importable
    THEN "SentenceTransformerEmbedder" ELSE "SimpleEmbedder"

\* SimpleVectorStore.__init__ (main.py 30-32)
NewSimpleStore == [documents |-> <<>>, doc_vectors |-> <<>>]

(***************************************************************************)
(* Init: a freshly constructed HybridSearchEngine(semantic_weight), whose  *)
(* FAISSVectorStore() takes get_embedder(use_sentence_transformers=False). *)
(***************************************************************************)
Init ==
    /\ \E importable \in BOOLEAN : backend = GetEmbedder(FALSE, importable)
    /\ simple = NewSimpleStore
    /\ semantic_weight \in SemanticWeights
    /\ keyword_weight = KeywordWeight(semantic_weight)
    /\ embedder = NewEmbedder
    /\ store = NewStore
    /\ hybrid = NewHybrid
    /\ writer = IdleWriter
    /\ reader = IdleFrame
    /\ last = IdleFrame

SetEngine(E) ==
    /\ embedder' = E.emb
    /\ store' = E.store
    /\ hybrid' = E.hyb

(***************************************************************************)
(* Calls made one at a time.                                               *)
(***************************************************************************)
AddDocuments(c) ==
    /\ writer.pc = "idle" /\ reader.pc = "idle" /\ last.pc = "idle"
    /\ SetEngine(AddDocumentsCall(engine, MakeDocs(c)))
    /\ last' = [Frame("add", "done", <<>>, 0, Indexed(engine)) EXCEPT
                    !.reads.documents = MakeDocs(c)]
    /\ UNCHANGED <<backend, simple, semantic_weight, keyword_weight, writer, reader>>

Search(query, top_k) ==
    /\ writer.pc = "idle" /\ reader.pc = "idle" /\ last.pc = "idle"
    /\ embedder' = SearchEmbedder(engine, StartSearch(engine, query, top_k))
    /\ last' = SearchRun([engine EXCEPT !.emb = SearchEmbedder(engine, StartSearch(engine, query, top_k))],
                         StartSearch(engine, query, top_k),
                         semantic_weight, keyword_weight)
    /\ UNCHANGED <<backend, simple, semantic_weight, keyword_weight, store, hybrid, writer, reader>>

\* The caller takes what the call returned; it makes its next call after that.
Return ==
    /\ last.pc = "done"
    /\ last' = IdleFrame
    /\ UNCHANGED <<backend, simple, semantic_weight, keyword_weight, embedder, store, hybrid, writer, reader>>

Next ==
    \/ \E c \in Corpora : AddDocuments(c)
    \/ \E q \in Queries, k \in TopKs : Search(q, k)
    \/ Return

Spec == Init /\ [][Next]_vars

(***************************************************************************)
(* The same search made twice in a row: the caller calls search again with *)
(* the query and top_k of the call that has just returned, on the engine   *)
(* as that call left it.                                                   *)
(***************************************************************************)
SearchAgain ==
    /\ writer.pc = "idle" /\ reader.pc = "idle"
    /\ last.op = "search" /\ last.pc = "done"
    /\ embedder' = SearchEmbedder(engine, StartSearch(engine, last.query, last.top_k))
    /\ last' = [SearchRun([engine EXCEPT !.emb = SearchEmbedder(engine,
                                StartSearch(engine, last.query, last.top_k))],
                          StartSearch(engine, last.query, last.top_k),
                          semantic_weight, keyword_weight)
                    EXCEPT !.op = "repeat"]
    /\ UNCHANGED <<backend, simple, semantic_weight, keyword_weight, store, hybrid, writer, reader>>

NextRepeat ==
    \/ \E c \in Corpora : AddDocuments(c)
    \/ \E q \in Queries, k \in TopKs : Search(q, k)
    \/ SearchAgain
    \/ Return

SpecRepeat == Init /\ [][NextRepeat]_vars


(***************************************************************************)
(* Calls that overlap: one thread re-indexes (add_documents is called by   *)
(* one writer at a time) while another searches.  Nothing in the code      *)
(* orders the assignments of one call against the reads of the other, so a *)
(* thread switch can fall between any two of them.                         *)
(***************************************************************************)
\* The corpora of the overlapping calls: documents with ids, all of one
\* non-empty content.
ConcCorpora ==
    {c \in Corpora :
        /\ Len(c) >= 1
        /\ \A i \in 1..Len(c) : c[i].hasId /\ c[i].content # <<>> /\ c[i].content = c[1].content}
ConcQueries == {q \in Queries : Len(q) = 1 /\ q[1] \in {"a", "b"}}
ConcTopKs == {k \in TopKs : k >= 1}

BeginAdd(c) ==
    /\ writer.pc = "idle" /\ writer.calls < MaxAdds
    /\ writer' = [StartAdd(MakeDocs(c)) EXCEPT !.calls = writer.calls + 1]
    /\ UNCHANGED <<backend, simple, semantic_weight, keyword_weight, embedder, store, hybrid, reader, last>>

\* the next assignment of the add_documents call in progress
AddAssign ==
    /\ writer.pc # "idle"
    /\ SetEngine(AddStep(engine, writer))
    /\ writer' = IF AddNext(writer).pc = "done"
                  THEN [IdleWriter EXCEPT !.calls = writer.calls]
                  ELSE AddNext(writer)
    /\ UNCHANGED <<backend, simple, semantic_weight, keyword_weight, reader, last>>

\* An add_documents call of the writer has returned: the engine is Indexed,
\* and an add_documents in progress is re-indexing it.
AddHasReturned == writer.calls > (IF writer.pc = "idle" THEN 0 ELSE 1)

BeginSearch(query, top_k) ==
    /\ reader.pc = "idle" /\ last.pc = "idle"
    /\ reader' = [StartSearch(engine, query, top_k) EXCEPT !.indexed = AddHasReturned]
    /\ UNCHANGED <<backend, simple, semantic_weight, keyword_weight, embedder, store, hybrid, writer, last>>

\* the next read of the search call in progress; the call returns after its last
SearchRead ==
    /\ reader.pc # "idle"
    /\ embedder' = SearchEmbedder(engine, reader)
    /\ LET f == SearchStep(engine, reader, semantic_weight, keyword_weight)
       IN IF f.pc = "done"
          THEN reader' = IdleFrame /\ last' = f
          ELSE reader' = f /\ last' = last
    /\ UNCHANGED <<backend, simple, semantic_weight, keyword_weight, store, hybrid, writer>>

NextConc ==
    \/ \E c \in ConcCorpora : BeginAdd(c)
    \/ AddAssign
    \/ \E q \in ConcQueries, k \in ConcTopKs : BeginSearch(q, k)
    \/ SearchRead
    \/ Return

\* HybridSearchEngine() with the default semantic_weight = 0.7 (line 186)
DefaultSemanticWeight == 7

InitConc == Init /\ semantic_weight = DefaultSemanticWeight

SpecConc == InitConc /\ [][NextConc]_vars

(***************************************************************************)
(* Corpora of longer documents, in which a token can occur twice in one    *)
(* document and two tokens can share one.                                  *)
(***************************************************************************)
IndexCorpora ==
    SeqsUpTo([content : SeqsUpTo(DocWords, MaxIndexLen), hasId : {TRUE}], MaxIndexDocs)

NextIndex ==
    \/ \E c \in IndexCorpora : AddDocuments(c)
    \/ \E q \in Queries, k \in TopKs : Search(q, k)
    \/ Return

SpecIndex == InitConc /\ [][NextIndex]_vars

(***************************************************************************)
(* add_documents that raises part-way: a document whose "content" is not a *)
(* string (None) makes text.lower() raise AttributeError in the first      *)
(* _tokenize of fit (lines 33, 64), after both document lists were         *)
(* assigned (194, 120) and before fit assigns idf (37).                    *)
(***************************************************************************)
NoneContent == <<"<None>">>

FitError(texts) ==
    IF \E i \in 1..Len(texts) : texts[i] = NoneContent
    THEN "AttributeError" ELSE "none"

FailCorpora ==
    {c \in SeqsUpTo([content : {<<"a">>, NoneContent}, hasId : {TRUE}], MaxIndexDocs) :
        FitError([i \in 1..Len(c) |-> c[i].content]) # "none"}

AddDocumentsRaises(c) ==
    /\ writer.pc = "idle" /\ reader.pc = "idle" /\ last.pc = "idle"
    /\ FitError(Contents(MakeDocs(c))) # "none"
    /\ SetEngine(AddStep(AddStep(engine, StartAdd(MakeDocs(c))),
                         AddNext(StartAdd(MakeDocs(c)))))
    /\ last' = Raise([Frame("add", "done", <<>>, 0, Indexed(engine)) EXCEPT
                          !.reads.documents = MakeDocs(c)],
                     FitError(Contents(MakeDocs(c))))
    /\ UNCHANGED <<backend, simple, semantic_weight, keyword_weight, writer, reader>>

NextFail ==
    \/ \E c \in ConcCorpora : AddDocuments(c)
    \/ \E c \in FailCorpora : AddDocumentsRaises(c)
    \/ \E q \in ConcQueries, k \in ConcTopKs : Search(q, k)
    \/ Return

SpecFail == InitConc /\ [][NextFail]_vars

(***************************************************************************)
(* Corpora larger than 2 * top_k, where the semantic candidates (line 207) *)
(* are a proper part of the corpus: every document one word, all with an   *)
(* "id" or all without.                                                    *)
(***************************************************************************)
DupCorpora ==
    {c \in [1..MaxDupDocs -> [content : {<<w>> : w \in DocWords}, hasId : BOOLEAN]] :
        \A i \in 1..MaxDupDocs : c[i].hasId = c[1].hasId}

NextDup ==
    \/ \E c \in DupCorpora : AddDocuments(c)
    \/ \E q \in ConcQueries, k \in ConcTopKs : Search(q, k)
    \/ Return

SpecDup == InitConc /\ [][NextDup]_vars

(***************************************************************************)
(* A vector store of its own, constructed with an embedder of the caller's *)
(* (FAISSVectorStore(embedder=...), line 107) such as                      *)
(* SentenceTransformerEmbedder: its fit does nothing (77-79) and its       *)
(* encode returns whatever the external model gives (81-84), here any      *)
(* list of vectors of up to MaxDim components.                             *)
(***************************************************************************)
ProviderVectors == SeqsUpTo({0, SCALE}, MaxDim)

\* The corpora given to the store: up to two documents with ids.
StoreCorpora ==
    {c \in Corpora :
        /\ Len(c) <= 2
        /\ \A i \in 1..Len(c) : c[i].hasId /\ c[i].content = <<"a">>}

\* FAISSVectorStore.add_documents(documents), vecs what encode(texts) returned
StoreAddDocuments(c, vecs) ==
    /\ writer.pc = "idle" /\ reader.pc = "idle" /\ last.pc = "idle"
    /\ store' = [documents |-> MakeDocs(c), vectors |-> vecs, has_vectors |-> TRUE]
    /\ last' = [Frame("store_add", "done", <<>>, 0, store.has_vectors) EXCEPT
                    !.reads.documents = MakeDocs(c),
                    !.reads.vectors = vecs]
    /\ UNCHANGED <<backend, simple, semantic_weight, keyword_weight, embedder, hybrid, writer, reader>>

\* FAISSVectorStore.search(query, top_k), q_vec what encode([query])[0] returned
StoreSearch(query, q_vec, top_k) ==
    /\ writer.pc = "idle" /\ reader.pc = "idle" /\ last.pc = "idle"
    /\ LET f == [Frame("store_search", "done", query, top_k, store.has_vectors) EXCEPT
                     !.q_vec = q_vec]
           scores == BruteForceScores(store.vectors, q_vec, top_k)
       IN last' =
            IF ~store.has_vectors THEN Raise(f, "AttributeError")
            ELSE IF BruteForceError(scores, store.documents) # "none"
            THEN Raise(f, BruteForceError(scores, store.documents))
            ELSE [f EXCEPT !.scores = scores,
                           !.semantic_results = BruteForceResults(scores, store.documents),
                           !.reads.vectors = store.vectors,
                           !.reads.store_documents = store.documents]
    /\ UNCHANGED <<backend, simple, semantic_weight, keyword_weight, embedder, store, hybrid, writer, reader>>

\* (mutant) a failed embedding call makes the store fall back to the
\* frequency-based embedder
EmbedderFallback(kind, outcome) ==
    IF outcome = "error" THEN "SimpleEmbedder" ELSE kind

\* self.embedder is assigned in __init__ only (line 107): no call of
\* add_documents or search assigns it, whatever the outcome of the call.
EmbedderAfterCall(kind, outcome) == kind

\* add_documents when the embedder's encode raises (line 125): the exception
\* leaves the method, after self.documents was assigned (line 120)
StoreAddFails(c) ==
    /\ writer.pc = "idle" /\ reader.pc = "idle" /\ last.pc = "idle"
    /\ store' = StoreSetDocuments(store, MakeDocs(c))
    /\ backend' = EmbedderAfterCall(backend, "error")
    /\ last' = Raise([Frame("store_add", "done", <<>>, 0, store.has_vectors) EXCEPT
                          !.reads.documents = MakeDocs(c)],
                     "ProviderError")
    /\ UNCHANGED <<simple, semantic_weight, keyword_weight, embedder, hybrid, writer, reader>>

\* search when the embedder's encode raises (line 141)
StoreSearchFails(query, top_k) ==
    /\ writer.pc = "idle" /\ reader.pc = "idle" /\ last.pc = "idle"
    /\ backend' = EmbedderAfterCall(backend, "error")
    /\ last' = Raise(Frame("store_search", "done", query, top_k, store.has_vectors),
                     "ProviderError")
    /\ UNCHANGED <<simple, semantic_weight, keyword_weight, embedder, store, hybrid,
                   writer, reader>>

NextStore ==
    \/ \E c \in StoreCorpora : \E vecs \in [1..Len(c) -> ProviderVectors] :
          StoreAddDocuments(c, vecs)
    \/ \E q \in ConcQueries, v \in ProviderVectors, k \in TopKs : StoreSearch(q, v, k)
    \/ \E c \in StoreCorpora : StoreAddFails(c)
    \/ \E q \in ConcQueries, k \in TopKs : StoreSearchFails(q, k)
    \/ Return

\* FAISSVectorStore(embedder=get_embedder()) with sentence_transformers
\* importable: the store's embedder is the dense one.
InitStore ==
    /\ semantic_weight = DefaultSemanticWeight
    /\ keyword_weight = KeywordWeight(semantic_weight)
    /\ embedder = NewEmbedder
    /\ store = NewStore
    /\ hybrid = NewHybrid
    /\ writer = IdleWriter
    /\ reader = IdleFrame
    /\ last = IdleFrame
    /\ backend = GetEmbedder(TRUE, TRUE)
    /\ simple = NewSimpleStore

SpecStore == InitStore /\ [][NextStore]_vars

(***************************************************************************)
(* SimpleVectorStore (use-cases/04-customer-support-aws/main.py 24-70).    *)
(* A term-frequency vector is the dict token -> frequency as the sequence  *)
(* of its items in insertion order.                                        *)
(***************************************************************************)
SimpleWords == {"a", "B", "x1"}

\* re.findall(r'\b[a-z]+\b', text.lower()): a word with a digit in it has no
\* run of letters between two word boundaries
IsLetters(w) == w \in {"a", "b", "c"}

SimpleTokenize(text) == SelectSeq(Tokenize(text), IsLetters)

\* _compute_tfidf(tokens, vocab): count / len(tokens) for each token
ComputeTfidf(tokens) ==
    [i \in 1..Len(Distinct(tokens)) |->
        [tok |-> Distinct(tokens)[i],
         val |-> (Count(tokens, Distinct(tokens)[i]) * SCALE) \div Len(tokens)]]

\* vec.get(k, 0)
TfGet(vec, k) ==
    IF \E i \in 1..Len(vec) : vec[i].tok = k
    THEN vec[CHOOSE i \in 1..Len(vec) : vec[i].tok = k].val
    ELSE 0

\* sum(query_vec.get(k, 0) * doc_vec.get(k, 0) for k in set(query_vec) | set(doc_vec))
SimpleDot(query_vec, doc_vec) ==
    SumSeq([i \in 1..Len(query_vec) |-> query_vec[i].val * TfGet(doc_vec, query_vec[i].tok)])

\* (score, i) tuples compare by score first, by position second
TupleGreater(p, q) == p.score > q.score \/ (p.score = q.score /\ p.idx > q.idx)

\* scores.sort(reverse=True): the tuples in descending order
SortTuplesDesc(scores) ==
    [r \in 1..Len(scores) |->
        scores[CHOOSE i \in 1..Len(scores) :
                  Cardinality({j \in 1..Len(scores) : TupleGreater(scores[j], scores[i])}) = r - 1]]

\* main.py 57-63 and the slice of line 65
SimpleScores(doc_vectors, query_vec, top_k) ==
    Take(SortTuplesDesc([i \in 1..Len(doc_vectors) |->
                            [score |-> SimpleDot(query_vec, doc_vectors[i]), idx |-> i]]),
         top_k)

SimpleCorpora ==
    SeqsUpTo([content : SeqsUpTo(SimpleWords, MaxSimpleLen), hasId : {TRUE}], MaxSimpleDocs)

SimpleQueries == SeqsUpTo({"a", "b", "x1"}, 1) \cup {<<"a", "b">>}

\* the appended vectors (main.py 48-50)
RECURSIVE AppendVectors(_, _, _)
AppendVectors(doc_vectors, docs, i) ==
    IF i > Len(docs) THEN doc_vectors
    ELSE AppendVectors(Append(doc_vectors, ComputeTfidf(SimpleTokenize(docs[i].content))),
                       docs, i + 1)

\* SimpleVectorStore.add_documents(documents)
SimpleAddDocuments(c) ==
    /\ last.pc = "idle"
    /\ Len(simple.doc_vectors) + Len(c) <= MaxSimpleVectors
    /\ simple' = [documents |-> MakeDocs(c),
                  doc_vectors |-> AppendVectors(simple.doc_vectors, MakeDocs(c), 1)]
    /\ last' = [Frame("simple_add", "done", <<>>, 0, simple.documents # <<>>) EXCEPT
                    !.reads.documents = MakeDocs(c)]
    /\ UNCHANGED <<backend, semantic_weight, keyword_weight, embedder, store, hybrid,
                   writer, reader>>

\* SimpleVectorStore.search(query, top_k); the results are kept in the
\* frame's semantic_results
SimpleSearch(query, top_k) ==
    /\ last.pc = "idle"
    /\ LET f == Frame("simple_search", "done", query, top_k, simple.documents # <<>>)
           scores == SimpleScores(simple.doc_vectors,
                                  ComputeTfidf(SimpleTokenize(query)), top_k)
       IN last' =
            IF BruteForceError(scores, simple.documents) # "none"
            THEN Raise(f, BruteForceError(scores, simple.documents))
            ELSE [f EXCEPT !.scores = scores,
                           !.semantic_results = BruteForceResults(scores, simple.documents)]
    /\ UNCHANGED <<backend, simple, semantic_weight, keyword_weight, embedder, store,
                   hybrid, writer, reader>>

NextSimple ==
    \/ \E c \in SimpleCorpora : SimpleAddDocuments(c)
    \/ \E q \in SimpleQueries, k \in TopKs : SimpleSearch(q, k)
    \/ Return

SpecSimple == InitConc /\ [][NextSimple]_vars

(***************************************************************************)
(* Properties.                                                             *)
(***************************************************************************)
FreshEngine == [emb |-> NewEmbedder, store |-> NewStore, hyb |-> NewHybrid]

SearchReturned == last.op = "search" /\ last.pc = "done"
SearchOk == SearchReturned /\ last.error = "none"
AddReturned == last.op = "add" /\ last.pc = "done"

Range(seq) == {seq[i] : i \in 1..Len(seq)}

TokensOf(docs) == UNION {Range(Tokenize(docs[i].content)) : i \in 1..Len(docs)}

\* C1: search on an engine on which add_documents never succeeded fails with a
\* distinct IndexNotBuilt error, for every query and every top_k.
C1_EmptySearchIndexNotBuilt ==
    (SearchReturned /\ ~last.indexed) => last.error = "IndexNotBuilt"

\* The index structures are those of the current documents alone: what a fresh
\* engine builds from them, with no token and no posting of another corpus.
IndexBuiltFromCurrentCorpus ==
    Indexed(engine) =>
        /\ engine = AddDocumentsCall(FreshEngine, hybrid.documents)
        /\ store.documents = hybrid.documents
        /\ Range(embedder.vocab) = TokensOf(hybrid.documents)
        /\ {embedder.idf[i].tok : i \in 1..Len(embedder.idf)} = TokensOf(hybrid.documents)
        /\ Len(store.vectors) = Len(hybrid.documents)
        /\ \A i \in 1..Len(hybrid.inverted_index) :
              /\ hybrid.inverted_index[i].tok \in TokensOf(hybrid.documents)
              /\ \A p \in 1..MaxDocs + 1 :
                    p \in Range(hybrid.inverted_index[i].postings) <=>
                        /\ p <= Len(hybrid.documents)
                        /\ hybrid.inverted_index[i].tok
                              \in Range(Tokenize(hybrid.documents[p].content))

\* C2: after add_documents(B) on an engine indexed with some corpus A, the
\* documents, vocabulary, IDF table, vectors and inverted index are those built
\* from B alone, and every result of a later search is a document of B.
C2_ReindexReplaces ==
    /\ IndexBuiltFromCurrentCorpus
    /\ AddReturned => hybrid.documents = last.reads.documents
    /\ SearchOk => \A r \in 1..Len(last.results) :
                      last.results[r].document \in Range(hybrid.documents)

\* add_documents(B) has returned on an engine that was indexed before
C2_Witness ==
    /\ AddReturned /\ last.indexed
    /\ Len(hybrid.documents) = 1 /\ Len(hybrid.documents[1].content) = 1


\* C5: search changes no engine state: documents, vocabulary, IDF table, fitted
\* flag, vectors and inverted index are the same before and after every search
\* call, in whatever state the engine is when search is called.
C5_SearchReadOnly ==
    [][(last.pc = "idle" /\ last'.op = "search") =>
            UNCHANGED <<embedder, store, hybrid>>]_vars

\* The score the vector store gave the document (by identity) among the
\* 2 * top_k semantic candidates, 0.0 when it is not among them.
SemanticScoreOf(f, doc) ==
    IF \E s \in 1..Len(f.semantic_results) : f.semantic_results[s].document.ref = doc.ref
    THEN f.semantic_results[
            CHOOSE s \in 1..Len(f.semantic_results) :
                f.semantic_results[s].document.ref = doc.ref].relevance_score
    ELSE 0

\* The keyword score of the document (its position is its ref), 0.0 when it
\* matched no query token.
KeywordScoreOf(f, doc) ==
    IF \E k \in 1..Len(f.keyword_scores) : f.keyword_scores[k].idx = doc.ref
    THEN f.keyword_scores[
            CHOOSE k \in 1..Len(f.keyword_scores) : f.keyword_scores[k].idx = doc.ref].val
    ELSE 0

CandidateRefs(f) ==
    {f.semantic_results[s].document.ref : s \in 1..Len(f.semantic_results)}
        \cup {f.keyword_scores[k].idx : k \in 1..Len(f.keyword_scores)}

\* C6: in every result, semantic_score is the vector-store similarity of that
\* same document (0.0 outside the 2 * top_k candidates) and keyword_score is the
\* keyword score of that same document (0.0 when it matched no token), with and
\* without an explicit id; no candidate of either set is dropped before ranking.
C6_ScoresOfSameDocument ==
    SearchOk =>
        /\ \A r \in 1..Len(last.results) :
              /\ last.results[r].semantic_score = SemanticScoreOf(last, last.results[r].document)
              /\ last.results[r].keyword_score = KeywordScoreOf(last, last.results[r].document)
        /\ \A p \in CandidateRefs(last) :
              \E m \in 1..Len(last.merged) : last.merged[m].document.ref = p

\* The vector store's own search(query, top_k) on the engine's store.
PureVectorSearch(query, top_k) ==
    BruteForceResults(
        BruteForceScores(store.vectors, EncodeText(embedder, query), top_k),
        store.documents)

C8_SortedStable ==
    SearchOk =>
        /\ \A i \in 1..Len(last.results) - 1 :
              last.results[i].relevance_score >= last.results[i + 1].relevance_score
        /\ \E pi \in [1..Len(last.results) -> 1..Len(last.merged)] :
              /\ \A i \in 1..Len(last.results) :
                    /\ last.results[i].document = last.merged[pi[i]].document
                    /\ last.results[i].semantic_score = last.merged[pi[i]].semantic_score
                    /\ last.results[i].keyword_score = last.merged[pi[i]].keyword_score
              /\ \A i \in 1..Len(last.results) - 1 :
                    \/ last.results[i].relevance_score > last.results[i + 1].relevance_score
                    \/ pi[i] < pi[i + 1]
              \* nothing left out ranks before a returned entry
              /\ \A m \in 1..Len(last.merged) :
                    (\A i \in 1..Len(last.results) : pi[i] # m) =>
                        \A i \in 1..Len(last.results) :
                            \/ last.results[i].relevance_score
                                  > Combined(semantic_weight, keyword_weight, last.merged[m])
                            \/ /\ last.results[i].relevance_score
                                    = Combined(semantic_weight, keyword_weight, last.merged[m])
                               /\ pi[i] < m

\* two results of equal relevance_score, returned in merge order
C8_Witness ==
    /\ SearchOk /\ Len(last.results) = 2
    /\ last.results[1].relevance_score = last.results[2].relevance_score
    /\ last.results[1].relevance_score > 0
    /\ last.results[1].document # last.results[2].document

\* C9: relevance_score = semantic_weight * semantic_score + keyword_weight *
\* keyword_score for every result, where in every reachable engine state
\* semantic_weight is in [0,1] and keyword_weight = 1 - semantic_weight.
C9_FusedScoreAndWeights ==
    /\ semantic_weight \in 0..WSCALE
    /\ keyword_weight = WSCALE - semantic_weight
    /\ SearchOk => \A r \in 1..Len(last.results) :
          last.results[r].relevance_score =
              RoundDiv(semantic_weight * last.results[r].semantic_score
                          + keyword_weight * last.results[r].keyword_score, WSCALE)

ReadsOneGeneration(r) ==
    /\ r.store_documents = r.documents
    /\ r.vocab = AddDocumentsCall(FreshEngine, r.documents).emb.vocab
    /\ r.idf = AddDocumentsCall(FreshEngine, r.documents).emb.idf
    /\ r.vectors = AddDocumentsCall(FreshEngine, r.documents).store.vectors
    /\ r.inverted_index = AddDocumentsCall(FreshEngine, r.documents).hyb.inverted_index

\* C3: a search that runs concurrently with a re-indexing add_documents reads
\* documents, vocabulary/IDF, vectors and inverted index of one index
\* generation: all of the old corpus or all of the new, never a mixture or a
\* partially built structure.
C3_SearchReadsOneGeneration ==
    (SearchOk /\ last.indexed) => ReadsOneGeneration(last.reads)

\* C4: a search in flight while add_documents re-indexes the engine always
\* completes without raising: no document position taken from the vectors or
\* the postings is out of range of the document list.
C4_InFlightSearchCompletes ==
    (SearchReturned /\ last.indexed) => last.error = "none"

\* C11: with semantic_weight = 0.0 the documents returned by search are the
\* pure keyword ranking: every result carries the keyword score of that same
\* document as its keyword_score and relevance_score, the list is ordered by
\* that score descending, and no document left out has a higher keyword score.
C11_PureKeywordRanking ==
    (SearchOk /\ semantic_weight = 0) =>
        /\ \A r \in 1..Len(last.results) :
              /\ last.results[r].keyword_score
                    = KeywordScoreOf(last, last.results[r].document)
              /\ last.results[r].relevance_score = last.results[r].keyword_score
        /\ \A r \in 1..Len(last.results) - 1 :
              KeywordScoreOf(last, last.results[r].document)
                  >= KeywordScoreOf(last, last.results[r + 1].document)
        /\ \A p \in 1..Len(hybrid.documents) :
              (\A r \in 1..Len(last.results) : last.results[r].document.ref # p) =>
                  \A r \in 1..Len(last.results) :
                      KeywordScoreOf(last, last.results[r].document)
                          >= KeywordScoreOf(last, hybrid.documents[p])

\* C12: add_documents called with zero documents is rejected with an
\* EmptyCorpus error, and the engine is never Indexed with an empty corpus.
C12_EmptyCorpusRejected ==
    /\ (AddReturned /\ last.reads.documents = <<>>) => last.error = "EmptyCorpus"
    /\ Indexed(engine) => Len(hybrid.documents) > 0

\* What a call of add_documents evaluates to: the method has no return
\* statement, so the call gives None and no list of ids.
AddDocumentsReturn(docs) == [none |-> TRUE, ids |-> <<>>]

\* C15: add_documents returns the list of document ids, one per input
\* document in input order; every document supplied without an id has been
\* given one, and the ids of one corpus are pairwise distinct.
C15_AddReturnsIds ==
    AddReturned =>
        LET ret == AddDocumentsReturn(last.reads.documents)
        IN /\ ~ret.none
           /\ Len(ret.ids) = Len(hybrid.documents)
           /\ \A i \in 1..Len(hybrid.documents) :
                 /\ hybrid.documents[i].id # NoId
                 /\ i <= Len(ret.ids) => ret.ids[i] = hybrid.documents[i].id
           /\ \A i, j \in 1..Len(hybrid.documents) :
                 i # j => hybrid.documents[i].id # hybrid.documents[j].id

\* C20: when the query gives no document a non-zero similarity and no document
\* a keyword score, search returns an empty result list.
C20_NoSignalEmptyResult ==
    (SearchOk
        /\ last.keyword_scores = <<>>
        /\ \A i \in 1..Len(store.vectors) : Dot(last.q_vec, store.vectors[i]) = 0)
    => last.results = <<>>


\* The scores _keyword_search has accumulated for the last query when it
\* normalizes them.
LastAccumulated ==
    Accumulate(<<>>, Tokenize(last.query), hybrid.inverted_index, Len(hybrid.documents))

\* C16: the keyword scoring step returns an empty mapping when no query token
\* is in the index (and raises nothing), and otherwise a mapping whose values
\* all lie in [0,1], each the accumulated score divided by the maximum
\* accumulated score, so that the best document has 1.0.
C16_KeywordScoresNormalized ==
    SearchOk =>
        /\ (last.keyword_scores = <<>>) <=>
              \A i \in 1..Len(last.query) :
                  ~InIndex(hybrid.inverted_index, Tokenize(last.query)[i])
        /\ Len(last.keyword_scores) = Len(LastAccumulated)
        /\ \A k \in 1..Len(last.keyword_scores) :
              /\ last.keyword_scores[k].val \in 0..SCALE
              /\ last.keyword_scores[k].idx = LastAccumulated[k].idx
              /\ last.keyword_scores[k].val
                    = RoundDiv(LastAccumulated[k].val * SCALE, MaxVal(LastAccumulated))
        /\ last.keyword_scores # <<>> =>
              \E k \in 1..Len(last.keyword_scores) : last.keyword_scores[k].val = SCALE

\* two documents matched, one scored below the maximum
C16_Witness ==
    /\ SearchOk /\ Len(last.keyword_scores) >= 2
    /\ \E k \in 1..Len(last.keyword_scores) :
          last.keyword_scores[k].val > 0 /\ last.keyword_scores[k].val < SCALE

\* The sum, over the occurrences of the query tokens, of idf(t) for the tokens
\* t whose posting list holds position d.
RawKeywordScore(index, tokens, n, d) ==
    SumSeq([i \in 1..Len(tokens) |->
               IF d \in Range(Postings(index, tokens[i]))
               THEN SmoothedIdf(n, Len(Postings(index, tokens[i])))
               ELSE 0])

\* C17: before normalization the keyword score of document position d is the
\* sum, over every occurrence of a query token in the index (a repeated token
\* counts each time), of idf(t) for the tokens whose posting list holds d;
\* positions in no matching posting list are absent from the mapping.
C17_KeywordAccumulation ==
    SearchOk =>
        /\ \A d \in 1..Len(hybrid.documents) :
              IF \E i \in 1..Len(last.query) :
                     d \in Range(Postings(hybrid.inverted_index, Tokenize(last.query)[i]))
              THEN \E k \in 1..Len(LastAccumulated) :
                      /\ LastAccumulated[k].idx = d
                      /\ LastAccumulated[k].val
                            = RawKeywordScore(hybrid.inverted_index, Tokenize(last.query),
                                              Len(hybrid.documents), d)
              ELSE \A k \in 1..Len(LastAccumulated) : LastAccumulated[k].idx # d
        /\ \A k \in 1..Len(LastAccumulated) :
              LastAccumulated[k].idx \in 1..Len(hybrid.documents)
        /\ \A j, k \in 1..Len(LastAccumulated) :
              j # k => LastAccumulated[j].idx # LastAccumulated[k].idx
        /\ last.keyword_scores = Normalize(LastAccumulated)

\* a token repeated in the query, matching one of two documents, is counted twice
C17_Witness ==
    /\ SearchOk /\ Len(last.query) = 2 /\ last.query[1] = last.query[2]
    /\ Len(hybrid.documents) = 2
    /\ Len(LastAccumulated) = 1
    /\ LastAccumulated[1].val = 2 * SmoothedIdf(2, 1)

NoOverlap(query) ==
    \A i \in 1..Len(query) :
        /\ Tokenize(query)[i] \notin Range(embedder.vocab)
        /\ ~InIndex(hybrid.inverted_index, Tokenize(query)[i])

\* C19: in Indexed state, search with a query that has no token in common
\* with the vocabulary or the inverted index, the empty query included, never
\* raises an error.
C19_NoOverlapNoError ==
    (SearchReturned /\ last.indexed /\ NoOverlap(last.query)) => last.error = "none"

\* a query of one unknown token on a corpus of known ones has returned
C19_Witness ==
    /\ SearchOk /\ last.indexed /\ NoOverlap(last.query)
    /\ Len(last.query) >= 1 /\ Len(embedder.vocab) >= 1
    /\ Len(last.results) >= 1


SameDimension(vectors) ==
    \A i, j \in 1..Len(vectors) : Len(vectors[i]) = Len(vectors[j])

\* C13: adding documents whose vectors do not all have the same length fails
\* with a DimensionMismatch error at add time, and the vector store never
\* holds vectors of differing lengths.
C13_DimensionMismatchRejected ==
    /\ (last.op = "store_add" /\ last.pc = "done" /\ ~SameDimension(last.reads.vectors))
          => last.error = "DimensionMismatch"
    /\ SameDimension(store.vectors)


\* C22: after any sequence of add_documents calls on a SimpleVectorStore,
\* starting from the empty store, len(doc_vectors) = len(documents) and
\* doc_vectors[i] is the term-frequency vector of documents[i].
C22_VectorsMatchDocuments ==
    /\ Len(simple.doc_vectors) = Len(simple.documents)
    /\ \A i \in 1..Len(simple.documents) :
          i <= Len(simple.doc_vectors) =>
              simple.doc_vectors[i] = ComputeTfidf(SimpleTokenize(simple.documents[i].content))

\* C23: SimpleVectorStore.search(query, top_k) on an indexed store returns,
\* without raising and for every query, at most top_k results whose
\* relevance_score values are non-increasing and whose documents are documents
\* of the current corpus.
C23_SimpleSearchResults ==
    (last.op = "simple_search" /\ last.pc = "done" /\ last.indexed) =>
        /\ last.error = "none"
        /\ Len(last.semantic_results) <= last.top_k
        /\ \A r \in 1..Len(last.semantic_results) - 1 :
              last.semantic_results[r].relevance_score
                  >= last.semantic_results[r + 1].relevance_score
        /\ \A r \in 1..Len(last.semantic_results) :
              last.semantic_results[r].document \in Range(simple.documents)


\* C21: the embedder implementation of a store is chosen at construction and
\* is the same after every add_documents and search call, calls in which
\* embedding fails included: the failure is raised to the caller and the
\* frequency-based embedder never takes the place of the dense one.
C21_EmbedderChosenOnce ==
    [][/\ backend' = backend
       /\ (last'.pc = "done" /\ last'.error = "ProviderError") =>
              backend' = "SentenceTransformerEmbedder"]_vars

\* an add_documents on an indexed store has failed in the embedding call, and
\* the store still has its dense embedder
C21_Witness ==
    /\ last.op = "store_add" /\ last.pc = "done" /\ last.error = "ProviderError"
    /\ last.indexed
    /\ backend = "SentenceTransformerEmbedder"

\* The squared L2 norm of a vector, in units of 1/SCALE^2.
SquaredNorm(vec) == SumSeq([i \in 1..Len(vec) |-> vec[i] * vec[i]])

\* An L2-normalized vector has norm 1; the zero vector has no direction and
\* stays zero.
Normalized(vec) == SquaredNorm(vec) \in {0, SCALE * SCALE}

\* C28: every document vector and every query vector that enters a
\* similarity has been L2-normalized exactly once on its way from the
\* embedder: it has unit length, whatever embedder the store was constructed
\* with.
C28_NormalizedOnce ==
    /\ \A i \in 1..Len(store.vectors) : Normalized(store.vectors[i])
    /\ (last.op = "store_search" /\ last.pc = "done" /\ last.error = "none") =>
          /\ Normalized(last.q_vec)
          /\ \A r \in 1..Len(last.scores) : last.scores[r].score <= SCALE * SCALE


ContainsToken(doc, t) == t \in Range(Tokenize(doc.content))

StrictlyIncreasing(seq) == \A i \in 1..Len(seq) - 1 : seq[i] < seq[i + 1]

\* C24: in Indexed state, position i is in the posting list of token t
\* exactly when document i contains t; every posting list holds each position
\* at most once, in strictly increasing order, and only positions of the
\* current document list.
C24_PostingLists ==
    Indexed(engine) =>
        /\ \A t \in TokensOf(hybrid.documents) : InIndex(hybrid.inverted_index, t)
        /\ \A j, k \in 1..Len(hybrid.inverted_index) :
              j # k => hybrid.inverted_index[j].tok # hybrid.inverted_index[k].tok
        /\ \A k \in 1..Len(hybrid.inverted_index) :
              /\ StrictlyIncreasing(hybrid.inverted_index[k].postings)
              /\ \A i \in 1..MaxDocs + 1 :
                    i \in Range(hybrid.inverted_index[k].postings) <=>
                        /\ i <= Len(hybrid.documents)
                        /\ ContainsToken(hybrid.documents[i], hybrid.inverted_index[k].tok)

\* a token twice in the first document and once in the second
C24_Witness ==
    /\ Indexed(engine) /\ Len(hybrid.documents) = 2
    /\ hybrid.documents[1].content = <<"a", "a">>
    /\ hybrid.documents[2].content = <<"B", "a">>
    /\ Postings(hybrid.inverted_index, "a") = <<1, 2>>
    /\ Postings(hybrid.inverted_index, "b") = <<2>>

\* C25: in Indexed state every stored document vector and every query vector
\* encoded for a search has as many components as the embedder's vocabulary
\* has terms, so no similarity is computed over vectors of different length.
C25_OneDimension ==
    Indexed(engine) =>
        /\ \A i \in 1..Len(store.vectors) : Len(store.vectors[i]) = Len(embedder.vocab)
        /\ Len(store.vectors) = Len(store.documents)
        /\ (SearchReturned /\ last.indexed) =>
              /\ last.error = "none"
              /\ Len(last.q_vec) = Len(embedder.vocab)
              /\ last.reads.vectors = store.vectors

\* a query with a token outside a two-term vocabulary has been encoded
C25_Witness ==
    /\ SearchOk /\ last.indexed /\ Len(embedder.vocab) = 2
    /\ Len(last.query) = 2 /\ Len(last.q_vec) = 2
    /\ "c" \in Range(last.query)
    /\ Len(store.vectors) = 2

\* C26: encode on an embedder that has not been fitted fits it on exactly the
\* texts passed (the vocabulary becomes their token set, the embedder becomes
\* fitted); encode never re-fits a fitted embedder: vocabulary and IDF change
\* only through fit, called by add_documents or by that first encode.
C26_LazyFitOnce ==
    [][/\ (last.pc = "idle" /\ last'.op = "search") =>
             IF embedder.fitted
             THEN embedder' = embedder
             ELSE /\ embedder'.fitted
                  /\ Range(embedder'.vocab) = Range(Tokenize(last'.query))
                  /\ {embedder'.idf[i].tok : i \in 1..Len(embedder'.idf)}
                        = Range(Tokenize(last'.query))
                  /\ Len(embedder'.vocab) = Cardinality(Range(Tokenize(last'.query)))
       /\ embedder' # embedder => last'.op \in {"add", "search"}
       /\ (embedder.fitted /\ embedder' # embedder) => last'.op = "add"]_vars

\* a search on a never-indexed engine has fitted the embedder on its query
C26_Witness ==
    /\ SearchReturned /\ ~hybrid.has_index /\ ~store.has_vectors
    /\ embedder.fitted /\ Len(embedder.vocab) = 2
    /\ Range(embedder.vocab) = Range(Tokenize(last.query))

\* The number of documents that contain the token.
DocumentFrequency(docs, t) ==
    Cardinality({d \in 1..Len(docs) : ContainsToken(docs[d], t)})

\* C27: for every term of the fitted vocabulary and every token of the
\* inverted index, 1 <= document frequency <= N (N the number of indexed
\* documents), so the smoothed IDF ln((N+1)/(df+1)) + 1 is at least 1: never
\* zero or negative, also for a term present in every document.
C27_IdfPositive ==
    /\ \A i \in 1..Len(embedder.idf) : embedder.idf[i].val >= SCALE
    /\ Indexed(engine) =>
          /\ \A i \in 1..Len(embedder.idf) :
                /\ DocumentFrequency(hybrid.documents, embedder.idf[i].tok)
                      \in 1..Len(hybrid.documents)
                /\ embedder.idf[i].val
                      = SmoothedIdf(Len(hybrid.documents),
                                    DocumentFrequency(hybrid.documents, embedder.idf[i].tok))
          /\ \A k \in 1..Len(hybrid.inverted_index) :
                /\ Len(hybrid.inverted_index[k].postings) \in 1..Len(hybrid.documents)
                /\ Len(hybrid.inverted_index[k].postings)
                      = DocumentFrequency(hybrid.documents, hybrid.inverted_index[k].tok)
                /\ SmoothedIdf(Len(hybrid.documents),
                               Len(hybrid.inverted_index[k].postings)) >= SCALE
    /\ (SearchOk /\ last.indexed) =>
          \A k \in 1..Len(LastAccumulated) : LastAccumulated[k].val >= SCALE

\* a term in every document, twice in one of them: its IDF is exactly 1
C27_Witness ==
    /\ Indexed(engine) /\ Len(hybrid.documents) = 2
    /\ hybrid.documents[1].content = <<"a", "a">>
    /\ hybrid.documents[2].content = <<"a">>
    /\ Len(embedder.idf) = 1 /\ embedder.idf[1].val = SCALE


\* C29: if add_documents raises part-way on an Indexed engine, the index
\* built before is left intact: documents, vocabulary/IDF, vectors and
\* inverted index are unchanged, so later searches answer from the old corpus.
C29_FailedAddLeavesIndex ==
    [][(last'.op = "add" /\ last'.pc = "done" /\ last'.error # "none" /\ Indexed(engine))
          => UNCHANGED <<embedder, store, hybrid>>]_vars


\* C30: no document appears more than once in the list returned by a single
\* search, for corpora with distinct ids and for corpora with no id.
C30_NoDuplicateResults ==
    (last.op = "search" /\ last.pc = "done" /\ last.error = "none") =>
        \A i, j \in 1..Len(last.results) :
            i # j => last.results[i].document.ref # last.results[j].document.ref

=============================================================================
